---- MODULE Spec2Model ----
(***************************************************************************)
(* Model of lib/Crypto/Cipher/AES.py: the module-level loading of the two  *)
(* raw AES libraries, _create_base_cipher and new.                         *)
(*                                                                         *)
(* A Python dict is a function whose DOMAIN is the set of the names it     *)
(* holds.  A key is a record [bytes, len]: whether byte_string() accepts   *)
(* it, and its length.  A loaded CDLL object is TRUE, None is FALSE.       *)
(* The two native libraries are named "aes" (_raw_aes) and "aesni"         *)
(* (_raw_aesni).                                                           *)
(***************************************************************************)
EXTENDS Integers, Sequences, FiniteSets, TLC

VARIABLES
    cpu,              \* environment: what cpuid.have_aes_ni() does here
    loadable,         \* environment: the libraries CDLL can load here
    module,           \* "unimported" | "ready" | "ImportFailed"
    _raw_aes_lib,     \* line 86
    _raw_aesni_lib,   \* lines 87-92
    calls,            \* constructions made so far
    last,             \* the most recent construction: argument and outcome
    selected,         \* (override, backend) of every start call made
    states            \* native cipher states produced by the start calls

vars == <<cpu, loadable, module, _raw_aes_lib, _raw_aesni_lib, calls, last,
          selected, states>>

-----------------------------------------------------------------------------
(* Bounds *)

MaxCalls == 2

-----------------------------------------------------------------------------
(* Program constants *)

MODE_ECB == 1
MODE_SIV == 10
\* AES-256 keys left out
key_size_short == {16, 24}

key_size == {16, 24, 32}

-----------------------------------------------------------------------------
(* Input domains *)

KeyLens == {15, 16, 24, 32, 33, 48, 64}
NotBytes == [bytes |-> FALSE, len |-> 16]
KeysOf(lens) == [bytes : {TRUE}, len : lens] \cup {NotBytes}
Keys == KeysOf(KeyLens)
Modes == {MODE_ECB, MODE_SIV}
Nonces == {11}
StatusCodes == {-1, 0, 17}
Libs == {"aes", "aesni"}

EmptyDict == [x \in {} |-> TRUE]
Entry(name, values) == {EmptyDict} \cup { name :> v : v \in values }

\* the dicts over the names "key", "use_aesni" and one mode field, "nonce"
Kwargs == Entry("use_aesni", BOOLEAN)
Dicts ==
    { k @@ u @@ n : k \in Entry("key", KeysOf({15, 16, 24, 32, 33})),
                    u \in Entry("use_aesni", BOOLEAN),
                    n \in Entry("nonce", Nonces) }

-----------------------------------------------------------------------------
(* Python helpers *)

\* dict.get in place of dict.pop: the name stays in the dict
Pop_get(d, name) == d

\* dict.pop(name): the dict without the name
Pop(d, name) == [x \in (DOMAIN d) \ {name} |-> d[x]]

\* dict.pop(name, default): the value popped
PopValue(d, name, default) == IF name \in DOMAIN d THEN d[name] ELSE default

\* the type check left out
byte_string_any(key) == TRUE

\* Crypto.Util.py3compat.byte_string
byte_string(key) == key.bytes

Digits == <<"0", "1", "2", "3", "4", "5", "6", "7", "8", "9",
            "A", "B", "C", "D", "E", "F">>

RECURSIVE ToDigits(_, _)
ToDigits(n, base) ==
    IF n < base THEN <<Digits[n + 1]>>
    ELSE Append(ToDigits(n \div base, base), Digits[(n % base) + 1])

\* "%X" % n  and  "%d" % n
Format(n, base) ==
    IF n < 0 THEN <<"-">> \o ToDigits(-n, base) ELSE ToDigits(n, base)

\* only the low hex digit of the status is reported
FormatX_low(n) == Format(n % 16, 16)

FormatX(n) == Format(n, 16)
FormatD(n) == Format(n, 10)

-----------------------------------------------------------------------------
(* Module import, lines 86-92 *)

Probes == {"yes", "no", "OSError"}

\* CDLL(get_mod_name(name)): the library object, or OSError
CDLL(name, libs) ==
    IF name \in libs THEN [lib |-> TRUE, exc |-> "none"]
    ELSE [lib |-> FALSE, exc |-> "OSError"]

\* the try statement without its except clause
load_aesni_uncaught(probe, libs) ==
    IF probe = "OSError" THEN [lib |-> FALSE, exc |-> "OSError"]
    ELSE IF probe = "yes" THEN CDLL("aesni", libs)
    ELSE [lib |-> FALSE, exc |-> "none"]

\* lines 87-92: _raw_aesni_lib after the try statement, and the exception
\* that leaves it (the except clause swallows OSError)
load_aesni(probe, libs) ==
    LET tried == IF probe = "OSError" THEN [lib |-> FALSE, exc |-> "OSError"]
                 ELSE IF probe = "yes" THEN CDLL("aesni", libs)
                 ELSE [lib |-> FALSE, exc |-> "none"]
    IN  IF tried.exc = "OSError" THEN [lib |-> FALSE, exc |-> "none"]
        ELSE tried

-----------------------------------------------------------------------------
(* _create_base_cipher, lines 95-124 *)

\* the override ignored
start_operation_forced(use_aesni, aesni_lib) ==
    IF aesni_lib THEN "aesni" ELSE "aes"

\* the portable stop operation whatever was started
stop_operation_portable(use_aesni, aesni_lib) == "aes"

\* an upper bound in place of the membership test
key_length_upto(key) == key.len <= 32

\* lines 112-117
start_operation(use_aesni, aesni_lib) ==
    IF use_aesni /\ aesni_lib THEN "aesni" ELSE "aes"

stop_operation(use_aesni, aesni_lib) ==
    IF use_aesni /\ aesni_lib THEN "aesni" ELSE "aes"

\* line 109
key_length_ok(key) == key.len \in key_size

Raise(exc, msg, arg, d) ==
    [exc |-> exc, msg |-> msg, arg |-> arg, dict |-> d, use_aesni |-> TRUE,
     start |-> "none", starts |-> 0, result |-> 0,
     handle |-> 0, stop |-> "none"]

\* result and handle are what the start operation called returns and writes
\* through byref(cipher); handle 0 is the NULL c_void_p() starts as
_create_base_cipher(dict_parameters, aesni_lib, result, handle) ==
    LET use_aesni == PopValue(dict_parameters, "use_aesni", TRUE)
        d1 == Pop(dict_parameters, "use_aesni")
    IN  IF "key" \notin DOMAIN d1
        THEN Raise("TypeError", "Missing 'key' parameter", <<>>, d1)
        ELSE
        LET key == d1["key"]
            d2 == Pop(d1, "key")
        IN  IF ~byte_string(key)
            THEN Raise("TypeError", "The cipher key must be a byte string",
                       <<>>, d2)
            ELSE IF ~key_length_ok(key)
            THEN Raise("ValueError", "Incorrect AES key length (%d bytes)",
                       FormatD(key.len), d2)
            ELSE
            LET start == start_operation(use_aesni, aesni_lib)
                stop == stop_operation(use_aesni, aesni_lib)
            IN  IF result # 0
                THEN [exc |-> "ValueError",
                      msg |-> "Error %X while instantiating the AES cipher",
                      arg |-> FormatX(result), dict |-> d2,
                      use_aesni |-> use_aesni,
                      start |-> start, starts |-> 1, result |-> result,
                      handle |-> 0, stop |-> "none"]
                ELSE [exc |-> "none", msg |-> "", arg |-> <<>>, dict |-> d2,
                      use_aesni |-> use_aesni,
                      start |-> start, starts |-> 1, result |-> result,
                      handle |-> handle, stop |-> stop]

-----------------------------------------------------------------------------
(* new, lines 127-191, and the dispatch it delegates to *)

\* line 190
new_kwargs(kwargs) == ("add_aes_modes" :> TRUE) @@ kwargs

\* the key lengths of the synthetic-IV mode (docstring, line 135)
siv_key_size == {32, 48, 64}

\* the key the base cipher is built on: the synthetic-IV mode splits the
\* key in two halves and builds its base ciphers on a half
base_key(key, mode) ==
    IF mode = MODE_SIV THEN [key EXCEPT !.len = key.len \div 2] ELSE key

\* the dict Crypto.Cipher._create_cipher hands to _create_base_cipher
base_parameters(key, mode, kwargs) ==
    ("key" :> base_key(key, mode)) @@ Pop(kwargs, "add_aes_modes")

\* Crypto.Cipher._create_cipher(factory, key, mode, **kwargs)
_create_cipher(key, mode, kwargs, aesni_lib, result, handle) ==
    IF mode = MODE_SIV /\ byte_string(key) /\ key.len \notin siv_key_size
    THEN Raise("ValueError", "Incorrect key length (%d bytes)",
               FormatD(key.len), Pop(kwargs, "add_aes_modes"))
    ELSE _create_base_cipher(base_parameters(key, mode, kwargs),
                             aesni_lib, result, handle)

\* new(key, mode, **kwargs)
new(key, mode, kwargs, aesni_lib, result, handle) ==
    _create_cipher(key, mode, new_kwargs(kwargs), aesni_lib, result, handle)

-----------------------------------------------------------------------------
(* State machine *)

NoCall ==
    [op |-> "none", given |-> EmptyDict, key |-> [bytes |-> TRUE, len |-> 0],
     mode |-> 0] @@ Raise("none", "", <<>>, EmptyDict)

Init ==
    /\ cpu \in Probes
    /\ loadable \in SUBSET Libs
    /\ module = "unimported"
    /\ _raw_aes_lib = FALSE
    /\ _raw_aesni_lib = FALSE
    /\ calls = 0
    /\ last = NoCall
    /\ selected = {}
    /\ states = <<>>

\* import Crypto.Cipher.AES: lines 86-92.  An OSError of line 86 is not
\* caught and the import fails.
Import ==
    /\ module = "unimported"
    /\ LET aes == CDLL("aes", loadable)
           aesni == load_aesni(cpu, loadable)
       IN  IF aes.exc # "none"
           THEN /\ module' = "ImportFailed"
                /\ UNCHANGED <<_raw_aes_lib, _raw_aesni_lib>>
           ELSE /\ _raw_aes_lib' = aes.lib
                /\ _raw_aesni_lib' = aesni.lib
                /\ module' = IF aesni.exc = "none" THEN "ready"
                             ELSE "ImportFailed"
    /\ UNCHANGED <<cpu, loadable, calls, last, selected, states>>

\* what a construction leaves in the state: the call made, the backend
\* selected and the native state the start operation allocated
RecordCall(op, given, key, mode, r, written) ==
    /\ calls' = calls + 1
    /\ last' = [op |-> op, given |-> given, key |-> key, mode |-> mode] @@ r
    /\ selected' = IF r.starts = 1
                   THEN selected \cup {[use_aesni |-> r.use_aesni,
                                        lib |-> r.start]}
                   ELSE selected
    /\ states' = IF r.starts = 1 /\ written
                 THEN Append(states, [lib |-> r.start, stop |-> r.stop,
                                      owned |-> r.exc = "none", stops |-> 0])
                 ELSE states

\* a construction that switches acceleration off for the process when the
\* override disables it
Record_sticky(op, given, key, mode, r, written) ==
    /\ RecordCall(op, given, key, mode, r, written)
    /\ _raw_aesni_lib' = (_raw_aesni_lib /\ r.use_aesni)
    /\ UNCHANGED <<cpu, loadable, module, _raw_aes_lib>>

\* a construction assigns no module-level name
Record(op, given, key, mode, r, written) ==
    /\ RecordCall(op, given, key, mode, r, written)
    /\ UNCHANGED <<cpu, loadable, module, _raw_aes_lib, _raw_aesni_lib>>

\* the native start operation returns result; when result is nonzero it may
\* or may not have left a state behind *cipher
Backend(result, written) ==
    /\ result \in StatusCodes
    /\ written \in BOOLEAN
    /\ result = 0 => written

\* a caller calls _create_base_cipher(dict_parameters)
CallCreateBaseCipher ==
    /\ module = "ready"
    /\ calls < MaxCalls
    /\ \E d \in Dicts :
        LET h == Len(states) + 1
            r(result) == _create_base_cipher(d, _raw_aesni_lib, result, h)
            rec(x, w) == Record("_create_base_cipher", d,
                                [bytes |-> TRUE, len |-> 0], 0, x, w)
        IN  IF r(0).starts = 0 THEN rec(r(0), FALSE)
            ELSE \E result \in StatusCodes, written \in BOOLEAN :
                    Backend(result, written) /\ rec(r(result), written)

\* a caller calls new(key, mode, **kwargs)
CallNew ==
    /\ module = "ready"
    /\ calls < MaxCalls
    /\ \E key \in Keys, mode \in Modes, kwargs \in Kwargs :
        LET h == Len(states) + 1
            r(result) == new(key, mode, kwargs, _raw_aesni_lib, result, h)
            rec(x, w) == Record("new",
                                base_parameters(key, mode, new_kwargs(kwargs)),
                                key, mode, x, w)
        IN  IF r(0).starts = 0 THEN rec(r(0), FALSE)
            ELSE \E result \in StatusCodes, written \in BOOLEAN :
                    Backend(result, written) /\ rec(r(result), written)

\* the owner of a handle releases it: stop_operation(handle), on close or
\* when processing fails
Release ==
    \E h \in 1 .. Len(states) :
        /\ states[h].owned
        /\ states' = [states EXCEPT ![h].owned = FALSE, ![h].stops = @ + 1]
        /\ UNCHANGED <<cpu, loadable, module, _raw_aes_lib, _raw_aesni_lib,
                       calls, last, selected>>

Next == Import \/ CallCreateBaseCipher \/ CallNew \/ Release

Spec == Init /\ [][Next]_vars

-----------------------------------------------------------------------------
(* Properties *)

Called == last.op # "none"
Succeeded == Called /\ last.exc = "none"
HasKey == "key" \in DOMAIN last.given
GivenKey == last.given["key"]

\* the override a construction was given: true when absent
Override(d) == "use_aesni" \in DOMAIN d => d["use_aesni"]

\* the accelerated library is usable in this process
Accelerated == cpu = "yes" /\ "aesni" \in loadable

DigitValue(c) == CHOOSE i \in 0 .. 15 : Digits[i + 1] = c

RECURSIVE ParseDigits(_, _)
ParseDigits(s, base) ==
    IF Len(s) = 0 THEN 0
    ELSE ParseDigits(SubSeq(s, 1, Len(s) - 1), base) * base
         + DigitValue(s[Len(s)])

\* int(s, 16)
ParseX(s) ==
    IF s[1] = "-" THEN 0 - ParseDigits(Tail(s), 16) ELSE ParseDigits(s, 16)

\* C1: a byte-string key whose length is not 16, 24 or 32 makes
\* _create_base_cipher raise ValueError, with the start operation of
\* neither library called and no handle or stop function returned.
C1_BadKeyLengthRejected ==
    (Called /\ last.mode # MODE_SIV /\ HasKey /\ GivenKey.bytes
        /\ GivenKey.len \notin {16, 24, 32})
    => /\ last.exc = "ValueError"
       /\ last.msg = "Incorrect AES key length (%d bytes)"
       /\ last.starts = 0
       /\ last.start = "none"
       /\ last.handle = 0
       /\ last.stop = "none"

C1_Witness ==
    /\ last.op = "_create_base_cipher"
    /\ HasKey /\ GivenKey.bytes /\ GivenKey.len = 33
    /\ last.exc = "ValueError"
    /\ Len(states) = 0

\* C2: every native state a start operation produced is either still held
\* by its owner or was released by exactly one stop call, also when the
\* construction failed after the start call.
C2_EveryStateReleased ==
    \A h \in 1 .. Len(states) : states[h].owned \/ states[h].stops = 1

\* C3: in every construction the accelerated start operation is the one
\* called if and only if the probe reported support, the accelerated
\* library loaded and the override (true when absent) does not disable it;
\* otherwise the portable start operation is called.
C3_AcceleratedIff ==
    /\ \A s \in selected :
          /\ s.lib \in Libs
          /\ s.lib = "aesni" <=> (Accelerated /\ s.use_aesni)
    /\ (Called /\ last.starts = 1) =>
          /\ last.start \in Libs
          /\ last.start = "aesni" <=> (Accelerated /\ Override(last.given))

C3_Witness ==
    /\ last.starts = 1
    /\ "use_aesni" \notin DOMAIN last.given
    /\ last.start = "aesni"
    /\ [use_aesni |-> FALSE, lib |-> "aes"] \in selected

\* C4 as stated: an absent key fails with an error of another kind than the
\* TypeError a key that is no byte string fails with.
C4_AbsentKeyOtherKind ==
    (Called /\ ~HasKey) => (last.exc # "none" /\ last.exc # "TypeError")

\* C4: an absent key and a key that is no byte string both fail with
\* TypeError, told apart by the message only, and in both cases no start
\* operation is called.
C4_KeyTypeErrors ==
    /\ (Called /\ ~HasKey) =>
          /\ last.exc = "TypeError"
          /\ last.msg = "Missing 'key' parameter"
          /\ last.starts = 0
    /\ (Called /\ HasKey /\ ~GivenKey.bytes) =>
          /\ last.exc = "TypeError"
          /\ last.msg = "The cipher key must be a byte string"
          /\ last.starts = 0

C4_Witness ==
    /\ Called /\ HasKey /\ ~GivenKey.bytes /\ GivenKey.len = 16
    /\ last.exc = "TypeError"
    /\ last.starts = 0

\* C5: a nonzero status of the start operation makes the construction
\* raise ValueError with the status in the message, readable back
\* unchanged, and nothing is returned; status zero returns the handle the
\* start operation wrote and a stop function; the start operation is
\* called once, whatever it returns.
C5_StatusSurfaced ==
    /\ last.starts \in {0, 1}
    /\ (Called /\ last.starts = 1 /\ last.result # 0) =>
          /\ last.exc = "ValueError"
          /\ last.msg = "Error %X while instantiating the AES cipher"
          /\ ParseX(last.arg) = last.result
          /\ last.handle = 0
          /\ last.stop = "none"
    /\ (Called /\ last.starts = 1 /\ last.result = 0) =>
          /\ last.exc = "none"
          /\ last.handle = Len(states)
          /\ states[last.handle].lib = last.start
          /\ last.stop \in Libs

C5_Witness ==
    /\ Called /\ last.starts = 1 /\ last.result = 17
    /\ last.exc = "ValueError"
    /\ last.arg = <<"1", "1">>

\* C6: when the probe reports no support, the probe raises OSError or the
\* accelerated library does not load, the import completes with
\* _raw_aesni_lib None, every start call is the portable one, and a
\* construction whose start operation returns zero succeeds.
C6_DegradesToPortable ==
    (module # "unimported" /\ "aes" \in loadable /\ ~Accelerated)
    => /\ module = "ready"
       /\ ~_raw_aesni_lib
       /\ \A s \in selected : s.lib = "aes"
       /\ (Called /\ last.starts = 1 /\ last.result = 0) =>
             (last.exc = "none" /\ last.start = "aes" /\ last.stop = "aes")

C6_Witness ==
    /\ cpu = "yes" /\ "aesni" \notin loadable
    /\ module = "ready"
    /\ Succeeded
    /\ Override(last.given)
    /\ last.start = "aes"

C8_OptionsConsumed ==
    Succeeded
    => /\ "use_aesni" \notin DOMAIN last.dict
       /\ "key" \notin DOMAIN last.dict
       /\ DOMAIN last.dict = DOMAIN last.given \ {"use_aesni", "key"}
       /\ \A n \in DOMAIN last.dict : last.dict[n] = last.given[n]

C8_Witness ==
    /\ Succeeded
    /\ DOMAIN last.given = {"key", "use_aesni", "nonce"}
    /\ DOMAIN last.dict = {"nonce"}

\* C9: the stop function a construction returns is the one of the library
\* whose start operation produced the handle, and a handle is released
\* through the stop function of its own library.
C9_StopMatchesStart ==
    /\ Succeeded => last.stop = last.start
    /\ \A h \in 1 .. Len(states) :
          states[h].stop \in {"none", states[h].lib}

C9_Witness ==
    /\ Succeeded
    /\ last.start = "aesni" /\ last.stop = "aesni"
    /\ \E h \in 1 .. Len(states) :
          states[h].lib = "aes" /\ states[h].stop = "aes"
              /\ states[h].stops = 1

\* C10: once the module is imported no construction changes
\* _raw_aesni_lib, and two constructions with the same override select
\* the same library.
C10_CapabilityFixed ==
    /\ [][module = "ready" => _raw_aesni_lib' = _raw_aesni_lib]_vars
    /\ [](\A a, b \in selected : a.use_aesni = b.use_aesni => a.lib = b.lib)

C10_Witness ==
    /\ calls = 2
    /\ Len(states) = 2
    /\ Cardinality(selected) = 1
    /\ _raw_aesni_lib
    /\ last.exc = "ValueError"

====
